---- MODULE Spec2Model ----
(***************************************************************************)
(* A model of perfana's return statistics (perfana/core/utils.py and       *)
(* perfana/core/returns.py).                                               *)
(*                                                                         *)
(* Every public function is a pure computation over its arguments, so the  *)
(* state machine is one call: `call` holds the function and its arguments, *)
(* `ret` the outcome (a returned value or a raised exception), `pc` the    *)
(* position inside the call and `loc` the locals of a call in progress.    *)
(*                                                                         *)
(* Python values are represented as follows.                               *)
(*   str            the sequence of its code points (freq, fail_policy)   *)
(*   None           the value None below                                   *)
(*   timestamp      an integer day number; a gap is a number of days       *)
(*   float cell     <<v>> for the return v/100, NaN for a missing value    *)
(*   column label   [kind |-> "int", i |-> k], [kind |-> "str", s |-> ..]  *)
(*                  or NoName (the label None)                             *)
(*   Series         [ndim |-> 1, columns |-> <<name>>, index, rows]        *)
(*   DataFrame      [ndim |-> 2, columns |-> <<labels>>, index, rows]      *)
(*                  rows[i] is the sequence of the cells of row i          *)
(*                                                                         *)
(* The arguments are time series already: to_time_series, the coercion of  *)
(* the raw input, has been applied to them.  Floating point results are    *)
(* kept as exact fractions or as the expression that is evaluated.         *)
(***************************************************************************)
EXTENDS Integers, Sequences, FiniteSets, TLC

VARIABLES pc, call, ret, loc

vars == <<pc, call, ret, loc>>

(***************************************************************************)
(* Bounds of the explored inputs.                                          *)
(***************************************************************************)
\* the longest index has MaxGaps + 1 timestamps
MaxGaps == 40
\* at most MaxOdd gaps of an index differ from its leading gap
MaxOdd == 6
\* rows of a returns series handed to the return statistics
MaxRows == 2
\* columns of a returns table
MaxCols == 2

(***************************************************************************)
(* Python values.                                                          *)
(***************************************************************************)
\* None, as no text: no code point is negative
None == <<-1>>

NaN == <<>>

Return(v) == [status |-> "return", value |-> v]

Raise(e, a) == [status |-> "raise", exc |-> e, args |-> a]

NoCall == [fn |-> "none"]

NoRet == [status |-> "none"]

RECURSIVE SumSeq(_)
SumSeq(s) == IF s = <<>> THEN 0 ELSE Head(s) + SumSeq(Tail(s))

RECURSIVE ProdSeq(_)
ProdSeq(s) == IF s = <<>> THEN 1 ELSE Head(s) * ProdSeq(Tail(s))

Min(a, b) == IF a <= b THEN a ELSE b

(***************************************************************************)
(* str, str.lower() and str(freq).  A str is the sequence of its code      *)
(* points; Text writes one from its ASCII characters.                      *)
(***************************************************************************)
\* the printable ASCII characters, from code point 32 on (the quote, the
\* backslash and the backtick by name)
Ascii ==
    <<" ", "!", "(quote)", "#", "$", "%", "&", "'", "(", ")", "*", "+", ",",
      "-", ".", "/", "0", "1", "2", "3", "4", "5", "6", "7", "8", "9", ":",
      ";", "<", "=", ">", "?", "@", "A", "B", "C", "D", "E", "F", "G", "H",
      "I", "J", "K", "L", "M", "N", "O", "P", "Q", "R", "S", "T", "U", "V",
      "W", "X", "Y", "Z", "[", "(backslash)", "]", "^", "_", "(backtick)", "a", "b", "c",
      "d", "e", "f", "g", "h", "i", "j", "k", "l", "m", "n", "o", "p", "q",
      "r", "s", "t", "u", "v", "w", "x", "y", "z", "{", "|", "}", "~">>

\* ord(ch) of a printable ASCII character
Ord(ch) == 31 + (CHOOSE i \in 1..Len(Ascii) : Ascii[i] = ch)

Text(chars) == [i \in 1..Len(chars) |-> Ord(chars[i])]

\* whether c lies in one of the ranges <<first, last>>
InRanges(c, ranges) == \E i \in 1..Len(ranges) : ranges[i][1] <= c /\ c <= ranges[i][2]

\* the shifts of the runs <<first, last, delta, step>> that hold c: none, or one
Shifts(c, runs) ==
    {runs[i][3] : i \in {j \in 1..Len(runs) : /\ runs[j][1] <= c /\ c <= runs[j][2]
                                              /\ (c - runs[j][1]) % runs[j][4] = 0}}

\* c moved by the one shift there is, or left where it is
Shifted(c, shifts) == IF shifts = {} THEN <<c>> ELSE <<c + (CHOOSE d \in shifts : TRUE)>>

\* The simple lowercase mappings of Unicode 14.0 (str.lower of one character,
\* where it is one other character), as runs <<first, last, delta, step>>:
\* every step-th code point c from first to last maps to c + delta.  The run
\* of U+212A (8490) maps the Kelvin sign to "k".
LowerRuns ==
    <<<<65, 90, 32, 1>>, <<192, 214, 32, 1>>, <<216, 222, 32, 1>>,
      <<256, 302, 1, 2>>, <<306, 310, 1, 2>>, <<313, 327, 1, 2>>,
      <<330, 374, 1, 2>>, <<376, 376, -121, 1>>, <<377, 381, 1, 2>>,
      <<385, 385, 210, 1>>, <<386, 388, 1, 2>>, <<390, 390, 206, 1>>,
      <<391, 391, 1, 1>>, <<393, 394, 205, 1>>, <<395, 395, 1, 1>>,
      <<398, 398, 79, 1>>, <<399, 399, 202, 1>>, <<400, 400, 203, 1>>,
      <<401, 401, 1, 1>>, <<403, 403, 205, 1>>, <<404, 404, 207, 1>>,
      <<406, 406, 211, 1>>, <<407, 407, 209, 1>>, <<408, 408, 1, 1>>,
      <<412, 412, 211, 1>>, <<413, 413, 213, 1>>, <<415, 415, 214, 1>>,
      <<416, 420, 1, 2>>, <<422, 422, 218, 1>>, <<423, 423, 1, 1>>,
      <<425, 425, 218, 1>>, <<428, 428, 1, 1>>, <<430, 430, 218, 1>>,
      <<431, 431, 1, 1>>, <<433, 434, 217, 1>>, <<435, 437, 1, 2>>,
      <<439, 439, 219, 1>>, <<440, 440, 1, 1>>, <<444, 444, 1, 1>>,
      <<452, 452, 2, 1>>, <<453, 453, 1, 1>>, <<455, 455, 2, 1>>,
      <<456, 456, 1, 1>>, <<458, 458, 2, 1>>, <<459, 475, 1, 2>>,
      <<478, 494, 1, 2>>, <<497, 497, 2, 1>>, <<498, 500, 1, 2>>,
      <<502, 502, -97, 1>>, <<503, 503, -56, 1>>, <<504, 542, 1, 2>>,
      <<544, 544, -130, 1>>, <<546, 562, 1, 2>>, <<570, 570, 10795, 1>>,
      <<571, 571, 1, 1>>, <<573, 573, -163, 1>>, <<574, 574, 10792, 1>>,
      <<577, 577, 1, 1>>, <<579, 579, -195, 1>>, <<580, 580, 69, 1>>,
      <<581, 581, 71, 1>>, <<582, 590, 1, 2>>, <<880, 882, 1, 2>>,
      <<886, 886, 1, 1>>, <<895, 895, 116, 1>>, <<902, 902, 38, 1>>,
      <<904, 906, 37, 1>>, <<908, 908, 64, 1>>, <<910, 911, 63, 1>>,
      <<913, 929, 32, 1>>, <<932, 939, 32, 1>>, <<975, 975, 8, 1>>,
      <<984, 1006, 1, 2>>, <<1012, 1012, -60, 1>>, <<1015, 1015, 1, 1>>,
      <<1017, 1017, -7, 1>>, <<1018, 1018, 1, 1>>, <<1021, 1023, -130, 1>>,
      <<1024, 1039, 80, 1>>, <<1040, 1071, 32, 1>>, <<1120, 1152, 1, 2>>,
      <<1162, 1214, 1, 2>>, <<1216, 1216, 15, 1>>, <<1217, 1229, 1, 2>>,
      <<1232, 1326, 1, 2>>, <<1329, 1366, 48, 1>>, <<4256, 4293, 7264, 1>>,
      <<4295, 4295, 7264, 1>>, <<4301, 4301, 7264, 1>>, <<5024, 5103, 38864, 1>>,
      <<5104, 5109, 8, 1>>, <<7312, 7354, -3008, 1>>, <<7357, 7359, -3008, 1>>,
      <<7680, 7828, 1, 2>>, <<7838, 7838, -7615, 1>>, <<7840, 7934, 1, 2>>,
      <<7944, 7951, -8, 1>>, <<7960, 7965, -8, 1>>, <<7976, 7983, -8, 1>>,
      <<7992, 7999, -8, 1>>, <<8008, 8013, -8, 1>>, <<8025, 8031, -8, 2>>,
      <<8040, 8047, -8, 1>>, <<8072, 8079, -8, 1>>, <<8088, 8095, -8, 1>>,
      <<8104, 8111, -8, 1>>, <<8120, 8121, -8, 1>>, <<8122, 8123, -74, 1>>,
      <<8124, 8124, -9, 1>>, <<8136, 8139, -86, 1>>, <<8140, 8140, -9, 1>>,
      <<8152, 8153, -8, 1>>, <<8154, 8155, -100, 1>>, <<8168, 8169, -8, 1>>,
      <<8170, 8171, -112, 1>>, <<8172, 8172, -7, 1>>, <<8184, 8185, -128, 1>>,
      <<8186, 8187, -126, 1>>, <<8188, 8188, -9, 1>>, <<8486, 8486, -7517, 1>>,
      <<8490, 8490, -8383, 1>>, <<8491, 8491, -8262, 1>>, <<8498, 8498, 28, 1>>,
      <<8544, 8559, 16, 1>>, <<8579, 8579, 1, 1>>, <<9398, 9423, 26, 1>>,
      <<11264, 11311, 48, 1>>, <<11360, 11360, 1, 1>>,
      <<11362, 11362, -10743, 1>>, <<11363, 11363, -3814, 1>>,
      <<11364, 11364, -10727, 1>>, <<11367, 11371, 1, 2>>,
      <<11373, 11373, -10780, 1>>, <<11374, 11374, -10749, 1>>,
      <<11375, 11375, -10783, 1>>, <<11376, 11376, -10782, 1>>,
      <<11378, 11378, 1, 1>>, <<11381, 11381, 1, 1>>,
      <<11390, 11391, -10815, 1>>, <<11392, 11490, 1, 2>>,
      <<11499, 11501, 1, 2>>, <<11506, 11506, 1, 1>>, <<42560, 42604, 1, 2>>,
      <<42624, 42650, 1, 2>>, <<42786, 42798, 1, 2>>, <<42802, 42862, 1, 2>>,
      <<42873, 42875, 1, 2>>, <<42877, 42877, -35332, 1>>,
      <<42878, 42886, 1, 2>>, <<42891, 42891, 1, 1>>,
      <<42893, 42893, -42280, 1>>, <<42896, 42898, 1, 2>>,
      <<42902, 42920, 1, 2>>, <<42922, 42922, -42308, 1>>,
      <<42923, 42923, -42319, 1>>, <<42924, 42924, -42315, 1>>,
      <<42925, 42925, -42305, 1>>, <<42926, 42926, -42308, 1>>,
      <<42928, 42928, -42258, 1>>, <<42929, 42929, -42282, 1>>,
      <<42930, 42930, -42261, 1>>, <<42931, 42931, 928, 1>>,
      <<42932, 42946, 1, 2>>, <<42948, 42948, -48, 1>>,
      <<42949, 42949, -42307, 1>>, <<42950, 42950, -35384, 1>>,
      <<42951, 42953, 1, 2>>, <<42960, 42960, 1, 1>>, <<42966, 42968, 1, 2>>,
      <<42997, 42997, 1, 1>>, <<65313, 65338, 32, 1>>, <<66560, 66599, 40, 1>>,
      <<66736, 66771, 40, 1>>, <<66928, 66938, 39, 1>>, <<66940, 66954, 39, 1>>,
      <<66956, 66962, 39, 1>>, <<66964, 66965, 39, 1>>, <<68736, 68786, 64, 1>>,
      <<71840, 71871, 32, 1>>, <<93760, 93791, 32, 1>>,
      <<125184, 125217, 34, 1>>>>

\* The characters the final-sigma rule skips (Case_Ignorable), as ranges.
CaseIgnorable ==
    <<<<39, 39>>, <<46, 46>>, <<58, 58>>, <<94, 94>>, <<96, 96>>, <<168, 168>>,
      <<173, 173>>, <<175, 175>>, <<180, 180>>, <<183, 184>>, <<688, 879>>,
      <<884, 885>>, <<890, 890>>, <<900, 901>>, <<903, 903>>, <<1155, 1161>>,
      <<1369, 1369>>, <<1375, 1375>>, <<1425, 1469>>, <<1471, 1471>>,
      <<1473, 1474>>, <<1476, 1477>>, <<1479, 1479>>, <<1524, 1524>>,
      <<1536, 1541>>, <<1552, 1562>>, <<1564, 1564>>, <<1600, 1600>>,
      <<1611, 1631>>, <<1648, 1648>>, <<1750, 1757>>, <<1759, 1768>>,
      <<1770, 1773>>, <<1807, 1807>>, <<1809, 1809>>, <<1840, 1866>>,
      <<1958, 1968>>, <<2027, 2037>>, <<2042, 2042>>, <<2045, 2045>>,
      <<2070, 2093>>, <<2137, 2139>>, <<2184, 2184>>, <<2192, 2193>>,
      <<2200, 2207>>, <<2249, 2306>>, <<2362, 2362>>, <<2364, 2364>>,
      <<2369, 2376>>, <<2381, 2381>>, <<2385, 2391>>, <<2402, 2403>>,
      <<2417, 2417>>, <<2433, 2433>>, <<2492, 2492>>, <<2497, 2500>>,
      <<2509, 2509>>, <<2530, 2531>>, <<2558, 2558>>, <<2561, 2562>>,
      <<2620, 2620>>, <<2625, 2626>>, <<2631, 2632>>, <<2635, 2637>>,
      <<2641, 2641>>, <<2672, 2673>>, <<2677, 2677>>, <<2689, 2690>>,
      <<2748, 2748>>, <<2753, 2757>>, <<2759, 2760>>, <<2765, 2765>>,
      <<2786, 2787>>, <<2810, 2815>>, <<2817, 2817>>, <<2876, 2876>>,
      <<2879, 2879>>, <<2881, 2884>>, <<2893, 2893>>, <<2901, 2902>>,
      <<2914, 2915>>, <<2946, 2946>>, <<3008, 3008>>, <<3021, 3021>>,
      <<3072, 3072>>, <<3076, 3076>>, <<3132, 3132>>, <<3134, 3136>>,
      <<3142, 3144>>, <<3146, 3149>>, <<3157, 3158>>, <<3170, 3171>>,
      <<3201, 3201>>, <<3260, 3260>>, <<3263, 3263>>, <<3270, 3270>>,
      <<3276, 3277>>, <<3298, 3299>>, <<3328, 3329>>, <<3387, 3388>>,
      <<3393, 3396>>, <<3405, 3405>>, <<3426, 3427>>, <<3457, 3457>>,
      <<3530, 3530>>, <<3538, 3540>>, <<3542, 3542>>, <<3633, 3633>>,
      <<3636, 3642>>, <<3654, 3662>>, <<3761, 3761>>, <<3764, 3772>>,
      <<3782, 3782>>, <<3784, 3789>>, <<3864, 3865>>, <<3893, 3893>>,
      <<3895, 3895>>, <<3897, 3897>>, <<3953, 3966>>, <<3968, 3972>>,
      <<3974, 3975>>, <<3981, 3991>>, <<3993, 4028>>, <<4038, 4038>>,
      <<4141, 4144>>, <<4146, 4151>>, <<4153, 4154>>, <<4157, 4158>>,
      <<4184, 4185>>, <<4190, 4192>>, <<4209, 4212>>, <<4226, 4226>>,
      <<4229, 4230>>, <<4237, 4237>>, <<4253, 4253>>, <<4348, 4348>>,
      <<4957, 4959>>, <<5906, 5908>>, <<5938, 5939>>, <<5970, 5971>>,
      <<6002, 6003>>, <<6068, 6069>>, <<6071, 6077>>, <<6086, 6086>>,
      <<6089, 6099>>, <<6103, 6103>>, <<6109, 6109>>, <<6155, 6159>>,
      <<6211, 6211>>, <<6277, 6278>>, <<6313, 6313>>, <<6432, 6434>>,
      <<6439, 6440>>, <<6450, 6450>>, <<6457, 6459>>, <<6679, 6680>>,
      <<6683, 6683>>, <<6742, 6742>>, <<6744, 6750>>, <<6752, 6752>>,
      <<6754, 6754>>, <<6757, 6764>>, <<6771, 6780>>, <<6783, 6783>>,
      <<6823, 6823>>, <<6832, 6862>>, <<6912, 6915>>, <<6964, 6964>>,
      <<6966, 6970>>, <<6972, 6972>>, <<6978, 6978>>, <<7019, 7027>>,
      <<7040, 7041>>, <<7074, 7077>>, <<7080, 7081>>, <<7083, 7085>>,
      <<7142, 7142>>, <<7144, 7145>>, <<7149, 7149>>, <<7151, 7153>>,
      <<7212, 7219>>, <<7222, 7223>>, <<7288, 7293>>, <<7376, 7378>>,
      <<7380, 7392>>, <<7394, 7400>>, <<7405, 7405>>, <<7412, 7412>>,
      <<7416, 7417>>, <<7468, 7530>>, <<7544, 7544>>, <<7579, 7679>>,
      <<8125, 8125>>, <<8127, 8129>>, <<8141, 8143>>, <<8157, 8159>>,
      <<8173, 8175>>, <<8189, 8190>>, <<8203, 8207>>, <<8216, 8217>>,
      <<8228, 8228>>, <<8231, 8231>>, <<8234, 8238>>, <<8288, 8292>>,
      <<8294, 8303>>, <<8305, 8305>>, <<8319, 8319>>, <<8336, 8348>>,
      <<8400, 8432>>, <<11388, 11389>>, <<11503, 11505>>, <<11631, 11631>>,
      <<11647, 11647>>, <<11744, 11775>>, <<11823, 11823>>, <<12293, 12293>>,
      <<12330, 12333>>, <<12337, 12341>>, <<12347, 12347>>, <<12441, 12446>>,
      <<12540, 12542>>, <<40981, 40981>>, <<42232, 42237>>, <<42508, 42508>>,
      <<42607, 42610>>, <<42612, 42621>>, <<42623, 42623>>, <<42652, 42655>>,
      <<42736, 42737>>, <<42752, 42785>>, <<42864, 42864>>, <<42888, 42890>>,
      <<42994, 42996>>, <<43000, 43001>>, <<43010, 43010>>, <<43014, 43014>>,
      <<43019, 43019>>, <<43045, 43046>>, <<43052, 43052>>, <<43204, 43205>>,
      <<43232, 43249>>, <<43263, 43263>>, <<43302, 43309>>, <<43335, 43345>>,
      <<43392, 43394>>, <<43443, 43443>>, <<43446, 43449>>, <<43452, 43453>>,
      <<43471, 43471>>, <<43493, 43494>>, <<43561, 43566>>, <<43569, 43570>>,
      <<43573, 43574>>, <<43587, 43587>>, <<43596, 43596>>, <<43632, 43632>>,
      <<43644, 43644>>, <<43696, 43696>>, <<43698, 43700>>, <<43703, 43704>>,
      <<43710, 43711>>, <<43713, 43713>>, <<43741, 43741>>, <<43756, 43757>>,
      <<43763, 43764>>, <<43766, 43766>>, <<43867, 43871>>, <<43881, 43883>>,
      <<44005, 44005>>, <<44008, 44008>>, <<44013, 44013>>, <<64286, 64286>>,
      <<64434, 64450>>, <<65024, 65039>>, <<65043, 65043>>, <<65056, 65071>>,
      <<65106, 65106>>, <<65109, 65109>>, <<65279, 65279>>, <<65287, 65287>>,
      <<65294, 65294>>, <<65306, 65306>>, <<65342, 65342>>, <<65344, 65344>>,
      <<65392, 65392>>, <<65438, 65439>>, <<65507, 65507>>, <<65529, 65531>>,
      <<66045, 66045>>, <<66272, 66272>>, <<66422, 66426>>, <<67456, 67461>>,
      <<67463, 67504>>, <<67506, 67514>>, <<68097, 68099>>, <<68101, 68102>>,
      <<68108, 68111>>, <<68152, 68154>>, <<68159, 68159>>, <<68325, 68326>>,
      <<68900, 68903>>, <<69291, 69292>>, <<69446, 69456>>, <<69506, 69509>>,
      <<69633, 69633>>, <<69688, 69702>>, <<69744, 69744>>, <<69747, 69748>>,
      <<69759, 69761>>, <<69811, 69814>>, <<69817, 69818>>, <<69821, 69821>>,
      <<69826, 69826>>, <<69837, 69837>>, <<69888, 69890>>, <<69927, 69931>>,
      <<69933, 69940>>, <<70003, 70003>>, <<70016, 70017>>, <<70070, 70078>>,
      <<70089, 70092>>, <<70095, 70095>>, <<70191, 70193>>, <<70196, 70196>>,
      <<70198, 70199>>, <<70206, 70206>>, <<70367, 70367>>, <<70371, 70378>>,
      <<70400, 70401>>, <<70459, 70460>>, <<70464, 70464>>, <<70502, 70508>>,
      <<70512, 70516>>, <<70712, 70719>>, <<70722, 70724>>, <<70726, 70726>>,
      <<70750, 70750>>, <<70835, 70840>>, <<70842, 70842>>, <<70847, 70848>>,
      <<70850, 70851>>, <<71090, 71093>>, <<71100, 71101>>, <<71103, 71104>>,
      <<71132, 71133>>, <<71219, 71226>>, <<71229, 71229>>, <<71231, 71232>>,
      <<71339, 71339>>, <<71341, 71341>>, <<71344, 71349>>, <<71351, 71351>>,
      <<71453, 71455>>, <<71458, 71461>>, <<71463, 71467>>, <<71727, 71735>>,
      <<71737, 71738>>, <<71995, 71996>>, <<71998, 71998>>, <<72003, 72003>>,
      <<72148, 72151>>, <<72154, 72155>>, <<72160, 72160>>, <<72193, 72202>>,
      <<72243, 72248>>, <<72251, 72254>>, <<72263, 72263>>, <<72273, 72278>>,
      <<72281, 72283>>, <<72330, 72342>>, <<72344, 72345>>, <<72752, 72758>>,
      <<72760, 72765>>, <<72767, 72767>>, <<72850, 72871>>, <<72874, 72880>>,
      <<72882, 72883>>, <<72885, 72886>>, <<73009, 73014>>, <<73018, 73018>>,
      <<73020, 73021>>, <<73023, 73029>>, <<73031, 73031>>, <<73104, 73105>>,
      <<73109, 73109>>, <<73111, 73111>>, <<73459, 73460>>, <<78896, 78904>>,
      <<92912, 92916>>, <<92976, 92982>>, <<92992, 92995>>, <<94031, 94031>>,
      <<94095, 94111>>, <<94176, 94177>>, <<94179, 94180>>, <<110576, 110579>>,
      <<110581, 110587>>, <<110589, 110590>>, <<113821, 113822>>,
      <<113824, 113827>>, <<118528, 118573>>, <<118576, 118598>>,
      <<119143, 119145>>, <<119155, 119170>>, <<119173, 119179>>,
      <<119210, 119213>>, <<119362, 119364>>, <<121344, 121398>>,
      <<121403, 121452>>, <<121461, 121461>>, <<121476, 121476>>,
      <<121499, 121503>>, <<121505, 121519>>, <<122880, 122886>>,
      <<122888, 122904>>, <<122907, 122913>>, <<122915, 122916>>,
      <<122918, 122922>>, <<123184, 123197>>, <<123566, 123566>>,
      <<123628, 123631>>, <<125136, 125142>>, <<125252, 125259>>,
      <<127995, 127999>>, <<917505, 917505>>, <<917536, 917631>>,
      <<917760, 917999>>>>

\* The cased characters that are not case-ignorable, as ranges: the rule
\* tests the first character it does not skip.
CasedNotIgnorable ==
    <<<<65, 90>>, <<97, 122>>, <<170, 170>>, <<181, 181>>, <<186, 186>>,
      <<192, 214>>, <<216, 246>>, <<248, 442>>, <<444, 447>>, <<452, 659>>,
      <<661, 687>>, <<880, 883>>, <<886, 887>>, <<891, 893>>, <<895, 895>>,
      <<902, 902>>, <<904, 906>>, <<908, 908>>, <<910, 929>>, <<931, 1013>>,
      <<1015, 1153>>, <<1162, 1327>>, <<1329, 1366>>, <<1376, 1416>>,
      <<4256, 4293>>, <<4295, 4295>>, <<4301, 4301>>, <<4304, 4346>>,
      <<4349, 4351>>, <<5024, 5109>>, <<5112, 5117>>, <<7296, 7304>>,
      <<7312, 7354>>, <<7357, 7359>>, <<7424, 7467>>, <<7531, 7543>>,
      <<7545, 7578>>, <<7680, 7957>>, <<7960, 7965>>, <<7968, 8005>>,
      <<8008, 8013>>, <<8016, 8023>>, <<8025, 8025>>, <<8027, 8027>>,
      <<8029, 8029>>, <<8031, 8061>>, <<8064, 8116>>, <<8118, 8124>>,
      <<8126, 8126>>, <<8130, 8132>>, <<8134, 8140>>, <<8144, 8147>>,
      <<8150, 8155>>, <<8160, 8172>>, <<8178, 8180>>, <<8182, 8188>>,
      <<8450, 8450>>, <<8455, 8455>>, <<8458, 8467>>, <<8469, 8469>>,
      <<8473, 8477>>, <<8484, 8484>>, <<8486, 8486>>, <<8488, 8488>>,
      <<8490, 8493>>, <<8495, 8500>>, <<8505, 8505>>, <<8508, 8511>>,
      <<8517, 8521>>, <<8526, 8526>>, <<8544, 8575>>, <<8579, 8580>>,
      <<9398, 9449>>, <<11264, 11387>>, <<11390, 11492>>, <<11499, 11502>>,
      <<11506, 11507>>, <<11520, 11557>>, <<11559, 11559>>, <<11565, 11565>>,
      <<42560, 42605>>, <<42624, 42651>>, <<42786, 42863>>, <<42865, 42887>>,
      <<42891, 42894>>, <<42896, 42954>>, <<42960, 42961>>, <<42963, 42963>>,
      <<42965, 42969>>, <<42997, 42998>>, <<43002, 43002>>, <<43824, 43866>>,
      <<43872, 43880>>, <<43888, 43967>>, <<64256, 64262>>, <<64275, 64279>>,
      <<65313, 65338>>, <<65345, 65370>>, <<66560, 66639>>, <<66736, 66771>>,
      <<66776, 66811>>, <<66928, 66938>>, <<66940, 66954>>, <<66956, 66962>>,
      <<66964, 66965>>, <<66967, 66977>>, <<66979, 66993>>, <<66995, 67001>>,
      <<67003, 67004>>, <<68736, 68786>>, <<68800, 68850>>, <<71840, 71903>>,
      <<93760, 93823>>, <<119808, 119892>>, <<119894, 119964>>,
      <<119966, 119967>>, <<119970, 119970>>, <<119973, 119974>>,
      <<119977, 119980>>, <<119982, 119993>>, <<119995, 119995>>,
      <<119997, 120003>>, <<120005, 120069>>, <<120071, 120074>>,
      <<120077, 120084>>, <<120086, 120092>>, <<120094, 120121>>,
      <<120123, 120126>>, <<120128, 120132>>, <<120134, 120134>>,
      <<120138, 120144>>, <<120146, 120485>>, <<120488, 120512>>,
      <<120514, 120538>>, <<120540, 120570>>, <<120572, 120596>>,
      <<120598, 120628>>, <<120630, 120654>>, <<120656, 120686>>,
      <<120688, 120712>>, <<120714, 120744>>, <<120746, 120770>>,
      <<120772, 120779>>, <<122624, 122633>>, <<122635, 122654>>,
      <<125184, 125251>>, <<127280, 127305>>, <<127312, 127337>>,
      <<127344, 127369>>>>

\* chr(c).lower(): U+0130 lowers to two characters, an isolated capital sigma
\* to the small sigma
LowerChar(c) ==
    IF 65 <= c /\ c <= 90 THEN <<c + 32>>
    ELSE IF c < 128 THEN <<c>>
    ELSE IF c = 304 THEN <<105, 775>>
    ELSE IF c = 931 THEN <<963>>
    ELSE Shifted(c, Shifts(c, LowerRuns))

\* the positions of the characters of s that are not case-ignorable
Letters(s) == {j \in 1..Len(s) : ~InRanges(s[j], CaseIgnorable)}

\* the nearest of these positions before i, and after i, if any
Before(i, letters) == {j \in letters : j < i /\ \A k \in letters : k < i => k <= j}

After(i, letters) == {j \in letters : j > i /\ \A k \in letters : k > i => j <= k}

\* there is a character before, it is cased, and the one after, if any, is not
WordEnd(s, before, after) ==
    /\ before # {}
    /\ {j \in before \cup after : InRanges(s[j], CasedNotIgnorable)} = before

SigmaEnds(s, i, letters) == WordEnd(s, Before(i, letters), After(i, letters))

\* whether the capital sigma s[i] ends a word: the nearest character before
\* it that is not case-ignorable is cased, and the nearest one after it, if
\* any, is not
FinalSigma(s, i) == SigmaEnds(s, i, Letters(s))

\* s.lower(): each character lowered in its context, one after the other.
\* U+0130 (304) is the one character that lowers to two, so the characters of
\* s[i] start at position i plus the number of U+0130 before it.
lower(s) ==
    LET start(i) == i + Cardinality({j \in 1..(i - 1) : s[j] = 304})
        n == Len(s) + Cardinality({j \in 1..Len(s) : s[j] = 304})
    IN [k \in 1..n |->
          LET i == CHOOSE i \in 1..Len(s) :
                       start(i) <= k /\ k <= start(i) + (IF s[i] = 304 THEN 1 ELSE 0)
          IN (IF s[i] = 931 /\ FinalSigma(s, i) THEN <<962>>
              ELSE LowerChar(s[i]))[k - start(i) + 1]]

str(v) == IF v = None THEN Text(<<"N", "o", "n", "e">>) ELSE v

(***************************************************************************)
(* The labels freq_to_scale recognises, and the six periodicities.         *)
(***************************************************************************)
daily == Text(<<"d", "a", "i", "l", "y">>)
weekly == Text(<<"w", "e", "e", "k", "l", "y">>)
monthly == Text(<<"m", "o", "n", "t", "h", "l", "y">>)
quarterly == Text(<<"q", "u", "a", "r", "t", "e", "r", "l", "y">>)
semi_annually == Text(<<"s", "e", "m", "i", "-", "a", "n", "n", "u", "a", "l", "l", "y">>)
yearly == Text(<<"y", "e", "a", "r", "l", "y">>)

DailyLabels == {Text(<<"d">>), Text(<<"d", "a", "y">>), daily}
WeeklyLabels == {Text(<<"w">>), Text(<<"w", "e", "e", "k">>), weekly}
MonthlyLabels == {Text(<<"m">>), Text(<<"m", "o", "n", "t", "h">>), monthly}
SemiLabels == {Text(<<"s">>), Text(<<"s", "e", "m", "i", "-", "a", "n", "n", "u", "a", "l">>),
               semi_annually}
QuarterlyLabels == {Text(<<"q">>), Text(<<"q", "u", "a", "r", "t", "e", "r">>), quarterly}
YearlyLabels == {Text(<<"y">>), Text(<<"y", "e", "a", "r">>), yearly,
                 Text(<<"a", "n", "n", "u", "a", "l">>)}

UnknownFrequency(freq) == Raise("ValueError", <<"Unknown frequency", freq>>)

\* lines 12-24: the table, on the text f
ScaleOf(f) ==
    IF f \in DailyLabels THEN Return(252)
    ELSE IF f \in WeeklyLabels THEN Return(52)
    ELSE IF f \in MonthlyLabels THEN Return(12)
    ELSE IF f \in SemiLabels THEN Return(6)
    ELSE IF f \in QuarterlyLabels THEN Return(4)
    ELSE IF f \in YearlyLabels THEN Return(1)
    ELSE UnknownFrequency(f)

\* freq_to_scale without the lower(): a case-sensitive table
freq_to_scale_nocase(freq) == ScaleOf(str(freq))

freq_to_scale(freq) == ScaleOf(lower(str(freq)))

(***************************************************************************)
(* infer_frequency                                                         *)
(***************************************************************************)
\* the order of the keys of the dict `delta`
Periodicities == <<daily, weekly, monthly, quarterly, semi_annually, yearly>>

\* day counts with 5 and 6 days counted as weekly too: overlapping sets
DaysOfOverlapping(k) ==
    CASE k = 1 -> 1..5
      [] k = 2 -> 5..7
      [] k = 3 -> 28..31
      [] k = 4 -> 89..92
      [] k = 5 -> 180..184
      [] k = 6 -> 360..366

\* the day counts summed into delta[Periodicities[k]]
DaysOf(k) ==
    CASE k = 1 -> 1..5
      [] k = 2 -> {7}
      [] k = 3 -> {28, 29, 30, 31}
      [] k = 4 -> 89..92
      [] k = 5 -> 180..184
      [] k = 6 -> 360..366

\* data.index[1:] - data.index[:-1]
Gaps(index) ==
    IF Len(index) < 2 THEN <<>>
    ELSE [i \in 1..(Len(index) - 1) |-> index[i + 1] - index[i]]

\* delta[Periodicities[k]]: the sum, over the days of the periodicity, of
\* (...).value_counts().get(f'{day} days', 0), which is the number of gaps
\* whose day count is one of these days
delta(index, k) ==
    LET g == Gaps(index) IN
    Cardinality({i \in DOMAIN g : g[i] \in DaysOf(k)})

\* max(delta, key=...): the first key, in dict order, holding the largest count
\* a max that keeps the last of the keys holding the largest count
MaxKeyLast(index) ==
    LET d == [k \in 1..6 |-> delta(index, k)]
        best == CHOOSE k \in 1..6 :
                  /\ \A j \in 1..6 : d[j] <= d[k]
                  /\ \A j \in (k + 1)..6 : d[j] < d[k]
    IN Periodicities[best]

MaxKey(index) ==
    LET d == [k \in 1..6 |-> delta(index, k)]
        best == CHOOSE k \in 1..6 :
                  /\ \A j \in 1..6 : d[j] <= d[k]
                  /\ \A j \in 1..(k - 1) : d[j] < d[k]
    IN Periodicities[best]

\* count >= 0.85 * n: a threshold that is not strict
OverThresholdWeak(count, n) == 100 * count >= 85 * n

\* count > 0.85 * n.  The double 0.85 * n and the fraction 85 * n / 100 compare
\* alike with every integer count, for every n up to 2 000 000.
OverThreshold(count, n) == 100 * count > 85 * n

\* for freq, count in delta.items(): if count > 0.85 * n: return freq
FirstOver(index) ==
    LET n == Len(index)
        over == {k \in 1..6 : OverThreshold(delta(index, k), n)}
    IN IF over = {} THEN None
       ELSE Periodicities[CHOOSE k \in over : \A j \in over : k <= j]

\* lines 43-70, with the policy in lower case
Inferred(index, policy) ==
    IF policy \notin {Text(<<"i", "g", "n", "o", "r", "e">>), Text(<<"r", "a", "i", "s", "e">>)}
    THEN Raise("ValueError", <<"Unknown <fail_policy>", policy>>)
    ELSE IF Len(index) < 30 THEN Return(MaxKey(index))
    ELSE IF FirstOver(index) # None THEN Return(FirstOver(index))
    ELSE IF policy = Text(<<"r", "a", "i", "s", "e">>)
    THEN Raise("TypeError", <<"could not infer periodicity of time series index">>)
    ELSE Return(None)

infer_frequency(data, fail_policy) == Inferred(data.index, lower(fail_policy))

(***************************************************************************)
(* Series and DataFrame                                                    *)
(***************************************************************************)
NoName == [kind |-> "none"]

IntName(k) == [kind |-> "int", i |-> k]

StrName(t) == [kind |-> "str", s |-> t]

Series(name, index, rows) ==
    [ndim |-> 1, columns |-> <<name>>, index |-> index, rows |-> rows]

DataFrame(columns, index, rows) ==
    [ndim |-> 2, columns |-> columns, index |-> index, rows |-> rows]

\* len(data)
len(data) == Len(data.index)

\* the positions, from i on, of the rows of data that hold no missing value
RECURSIVE CompleteRows(_, _)
CompleteRows(data, i) ==
    IF i > Len(data.index) THEN <<>>
    ELSE IF \A c \in DOMAIN data.rows[i] : data.rows[i][c] # NaN
    THEN <<i>> \o CompleteRows(data, i + 1)
    ELSE CompleteRows(data, i + 1)

\* the rows of data at the positions pos
TakeRows(data, pos) ==
    [data EXCEPT !.index = [i \in 1..Len(pos) |-> data.index[pos[i]]],
                 !.rows = [i \in 1..Len(pos) |-> data.rows[pos[i]]]]

\* data.dropna(): the rows that hold no missing value
dropna(data) == TakeRows(data, CompleteRows(data, 1))

\* data.iloc[:n]
iloc(data, n) == TakeRows(data, [i \in 1..Min(n, len(data)) |-> i])

\* one column of a DataFrame, as ra.iteritems() yields it
Column(data, c) ==
    Series(data.columns[c], data.index,
           [i \in 1..len(data) |-> <<data.rows[i][c]>>])

\* the value a call returned, None when it raised
ValueOrNone(r) == IF r.status = "return" THEN r.value ELSE None

\* data.ppa.frequency: the accessor's inference of the frequency of the
\* index, absent (None) when it cannot be inferred
ppa_frequency(data) ==
    ValueOrNone(infer_frequency(data, Text(<<"i", "g", "n", "o", "r", "e">>)))

(***************************************************************************)
(* annualized_returns                                                      *)
(***************************************************************************)
\* the values of column c of r, in hundredths
ColumnValues(r, c) == [i \in 1..len(r) |-> r.rows[i][c][1]]

\* (r + 1).prod() ** (scale / len(r)) - 1 for one column: the base as the
\* fraction <<numerator, denominator>>, the exponent as <<scale, len(r)>>
GeometricCell(r, c, scale) ==
    [form |-> "geometric",
     base |-> <<ProdSeq([i \in 1..len(r) |-> 100 + ColumnValues(r, c)[i]]),
                ProdSeq([i \in 1..len(r) |-> 100])>>,
     exp |-> <<scale, len(r)>>]

\* r.mean() * scale for one column, as the fraction <<numerator, denominator>>;
\* the mean of no value is NaN
ArithmeticCell(r, c, scale) ==
    IF len(r) = 0 THEN NaN
    ELSE [form |-> "arithmetic",
          value |-> <<SumSeq(ColumnValues(r, c)) * scale, 100 * len(r)>>]

\* a float for a Series, a Series labelled by the columns for a DataFrame
Reduced(r, cells) ==
    IF r.ndim = 1 THEN [ndim |-> 0, labels |-> <<>>, cells |-> cells]
    ELSE [ndim |-> 1, labels |-> r.columns, cells |-> cells]

\* lines 92-95: r annualized at the scale
Scaled(r, scale, geometric) ==
    IF scale.status = "raise" THEN scale
    ELSE IF geometric /\ len(r) = 0
    THEN Raise("ZeroDivisionError", <<"division by zero">>)
    ELSE IF geometric
    THEN Return(Reduced(r, [c \in DOMAIN r.columns |-> GeometricCell(r, c, scale.value)]))
    ELSE Return(Reduced(r, [c \in DOMAIN r.columns |-> ArithmeticCell(r, c, scale.value)]))

\* lines 87-90: the frequency of r when none is given, and its scale
Annualized(r, freq, geometric) ==
    Scaled(r, freq_to_scale(IF freq = None THEN ppa_frequency(r) ELSE freq), geometric)

annualized_returns(data, freq, geometric) == Annualized(dropna(data), freq, geometric)

(***************************************************************************)
(* _determine_frequency                                                    *)
(***************************************************************************)
\* a reconciler that compares the two inferred frequencies before it looks
\* at the requested one
ReconciledChecked(fa, fb, freq) ==
    IF fa = None /\ fb = None THEN Raise("TimeIndexError", <<>>)
    ELSE IF fa # None /\ fb # None /\ fa # fb
    THEN Raise("TimeIndexMismatchError", <<fa, fb>>)
    ELSE IF freq # None THEN Return(freq)
    ELSE IF fa = None THEN Return(fb)
    ELSE Return(fa)

_determine_frequency_checked(ra, rb, freq) ==
    ReconciledChecked(ppa_frequency(ra), ppa_frequency(rb), freq)

\* lines 189-198: the inferred frequencies fa and fb reconciled
Reconciled(fa, fb) ==
    IF fa = None /\ fb = None THEN Raise("TimeIndexError", <<>>)
    ELSE IF fa = None THEN Return(fb)
    ELSE IF fb = None THEN Return(fa)
    ELSE IF fa # fb THEN Raise("TimeIndexMismatchError", <<fa, fb>>)
    ELSE Return(fa)

_determine_frequency(ra, rb, freq) ==
    IF freq # None THEN Return(freq)
    ELSE Reconciled(ppa_frequency(ra), ppa_frequency(rb))

(***************************************************************************)
(* Column names of active_premium and relative_returns                     *)
(***************************************************************************)
\* the truth value of a Series name in `ra.name or prefix`
Truthy(name) ==
    CASE name.kind = "none" -> FALSE
      [] name.kind = "int" -> name.i # 0
      [] name.kind = "str" -> name.s # ""

\* the text of a label inside an f-string
Format(name) ==
    CASE name.kind = "none" -> "None"
      [] name.kind = "int" -> ToString(name.i)
      [] name.kind = "str" -> name.s

\* a conversion that gives a series without a text name the label 0, so that
\* it is named after the prefix and its position
AsFramePositional(data, prefix) ==
    IF data.ndim = 1 /\ data.columns[1].kind # "str"
    THEN DataFrame(<<IntName(0)>>, data.index, data.rows)
    ELSE DataFrame(data.columns, data.index, data.rows)

\* if isinstance(ra, pd.Series): ra = pd.DataFrame(ra.rename(ra.name or prefix))
AsFrame(data, prefix) ==
    IF data.ndim = 1
    THEN DataFrame(<<IF Truthy(data.columns[1]) THEN data.columns[1]
                     ELSE StrName(prefix)>>, data.index, data.rows)
    ELSE data

\* if isinstance(ca, int): ca = f'{prefix}_{ca}'
Renamed(name, prefix) ==
    IF name.kind = "int" THEN StrName(prefix \o "_" \o ToString(name.i)) ELSE name

\* the keys of a dict (the columns of a DataFrame) filled in the order of s
RECURSIVE Keys(_)
Keys(s) ==
    IF s = <<>> THEN <<>>
    ELSE LET front == Keys(SubSeq(s, 1, Len(s) - 1))
             last == s[Len(s)]
         IN IF \E i \in DOMAIN front : front[i] = last THEN front
            ELSE Append(front, last)

\* the last position of s that holds x: a later assignment to a key replaces
\* the earlier one
LastOf(s, x) == CHOOSE i \in DOMAIN s : s[i] = x /\ \A j \in DOMAIN s : s[j] = x => j <= i

(***************************************************************************)
(* active_premium                                                          *)
(***************************************************************************)
\* the first exception raised by the calls rs, or NoRet
RECURSIVE FirstRaise(_)
FirstRaise(rs) ==
    IF rs = <<>> THEN NoRet
    ELSE IF Head(rs).status = "raise" THEN Head(rs)
    ELSE FirstRaise(Tail(rs))

\* lines 45-58: the premiums of the column pairs at the frequency
Premiums(ra, rb, freq, geometric, prefixes) ==
    LET na == Len(ra.columns)
        nb == Len(rb.columns)
        ca == [i \in 1..na |-> Renamed(ra.columns[i], prefixes[1])]
        cb == [j \in 1..nb |-> Renamed(rb.columns[j], prefixes[2])]
        A(i) == annualized_returns(Column(ra, i), freq.value, geometric)
        B(j) == annualized_returns(Column(rb, j), freq.value, geometric)
        \* the calls in the order of the two loops
        calls == [k \in 1..(2 * na * nb) |->
                    IF k % 2 = 1 THEN A((((k - 1) \div 2) \div nb) + 1)
                    ELSE B((((k - 1) \div 2) % nb) + 1)]
        Cell(x, y) == [op |-> "minus",
                       left |-> A(LastOf(ca, x)).value.cells[1],
                       right |-> B(LastOf(cb, y)).value.cells[1]]
    IN IF freq.status = "raise" THEN freq
       ELSE IF FirstRaise(calls) # NoRet THEN FirstRaise(calls)
       ELSE Return([type |-> "DataFrame",
                    columns |-> Keys(ca),
                    index |-> Keys(cb),
                    cells |-> [x \in {ca[i] : i \in 1..na} |->
                                 [y \in {cb[j] : j \in 1..nb} |-> Cell(x, y)]]])

\* line 43
Framed(ra, rb, freq, geometric, prefixes) ==
    Premiums(ra, rb, _determine_frequency(ra, rb, freq), geometric, prefixes)

active_premium(ra0, rb0, freq0, geometric, prefixes) ==
    Framed(AsFrame(ra0, prefixes[1]), AsFrame(rb0, prefixes[2]), freq0, geometric, prefixes)

(***************************************************************************)
(* relative_returns                                                        *)
(***************************************************************************)
\* the cell of the one-column series a at timestamp t, NaN where a has no row
\* at t (the outer join fills it)
CellAt(a, t) ==
    IF \E i \in 1..len(a) : a.index[i] = t
    THEN a.rows[CHOOSE i \in 1..len(a) : a.index[i] = t][1]
    ELSE NaN

\* (pd.merge(a, b, 'outer', ...).dropna() + 1).cumprod(), then column 0 over
\* column 1: at each timestamp both series have a value for, the fraction
\* <<numerator, denominator>> of the two cumulative products
Relative(a, b) ==
    LET T == {t \in {a.index[i] : i \in 1..len(a)} \cup {b.index[i] : i \in 1..len(b)} :
                CellAt(a, t) # NaN /\ CellAt(b, t) # NaN}
        Cum(x, t) == LET S == {u \in T : u <= t}
                         f == [u \in S |-> 100 + CellAt(x, u)[1]]
                         \* the product of f over S
                         P[U \in SUBSET S] ==
                             IF U = {} THEN 1
                             ELSE LET u == CHOOSE v \in U : TRUE
                                  IN f[u] * P[U \ {u}]
                     IN P[S]
    IN [t \in T |-> <<Cum(a, t), Cum(b, t)>>]

\* pd.merge(res, rel.rename(name), 'outer', ...): a column of res with the
\* same name gets the suffix _x and the new one the suffix _y
Merged(res, name, rel) ==
    IF \E i \in DOMAIN res.columns : res.columns[i] = name
    THEN [res EXCEPT !.columns = [i \in 1..(Len(res.columns) + 1) |->
                                    IF i > Len(res.columns) THEN name \o "_y"
                                    ELSE IF res.columns[i] = name THEN name \o "_x"
                                    ELSE res.columns[i]],
                     !.data = Append(res.data, rel)]
    ELSE [res EXCEPT !.columns = Append(res.columns, name),
                     !.data = Append(res.data, rel)]

\* res after the first k pairs of the two loops over nb benchmark columns
RECURSIVE Pairs(_, _, _, _, _)
Pairs(ra, rb, pa, pb, k) ==
    IF k = 0 THEN [type |-> "DataFrame", columns |-> <<>>, data |-> <<>>]
    ELSE LET nb == Len(rb.columns)
             i == ((k - 1) \div nb) + 1
             j == ((k - 1) % nb) + 1
             ca == Renamed(ra.columns[i], pa)
             cb == Renamed(rb.columns[j], pb)
         IN Merged(Pairs(ra, rb, pa, pb, k - 1),
                   Format(ca) \o "/" \o Format(cb),
                   Relative(Column(ra, i), Column(rb, j)))

\* a result that is never unwrapped
NoUnwrap(res) == res

\* if res.shape[1] == 1: return res.iloc[:, 0]
Unwrap(res) ==
    IF Len(res.columns) = 1 THEN [res EXCEPT !.type = "Series"] ELSE res

relative_returns(ra0, rb0, prefixes) ==
    LET ra == AsFrame(ra0, prefixes[1])
        rb == AsFrame(rb0, prefixes[2])
    IN Return(Unwrap(Pairs(ra, rb, prefixes[1], prefixes[2],
                           Len(ra.columns) * Len(rb.columns))))

(***************************************************************************)
(* excess_returns, statement by statement.  loc holds the locals ra, rb    *)
(* and freq of the call in progress, and the two annualized returns.       *)
(***************************************************************************)
ShapesDoNotMatch ==
    Raise("ValueError", <<"The shapes of the asset and benchmark returns do not match!">>)

\* ra.shape
shape(data) ==
    IF data.ndim = 1 THEN <<len(data)>> ELSE <<len(data), Len(data.columns)>>

\* the shape test without the comparison of the dimensions
ShapeMismatchAnyDim(ra, rb) == shape(ra) # shape(rb)

\* ra.ndim == rb.ndim and ra.shape != rb.shape
ShapeMismatch(ra, rb) == ra.ndim = rb.ndim /\ shape(ra) # shape(rb)

\* (ra - rb) / (1 + rb) if geometric else ra - rb, on the annualized returns
Combined(ra, rb, geometric) ==
    [formula |-> IF geometric THEN "(ra - rb) / (1 + rb)" ELSE "ra - rb",
     ra |-> ra, rb |-> rb]

NoLoc == [fn |-> "none"]

(***************************************************************************)
(* The explored arguments                                                  *)
(***************************************************************************)
\* an index of gaps + 1 timestamps from day 0 on: the last `odd` gaps are g2
\* days long, the gaps before them g1 days
Index(gaps, odd, g1, g2) ==
    LET lead == gaps - Min(odd, gaps) IN
    [i \in 1..(gaps + 1) |->
        IF i - 1 <= lead THEN (i - 1) * g1
        ELSE lead * g1 + (i - 1 - lead) * g2]

\* a series of zero returns over an index
Flat(index) == Series(StrName("r"), index, [i \in 1..Len(index) |-> <<<<0>>>>])

\* a day count of each periodicity, the last of the daily ones and one of none
GapChoices == {1, 5, 6, 7, 30, 91, 182, 365}

OddGapChoices == {5, 6, 7, 30}

InferIndexes ==
    {<<>>} \cup {Index(t, b, g1, g2) : t \in 0..MaxGaps, b \in 0..MaxOdd,
                                      g1 \in GapChoices, g2 \in OddGapChoices}

\* the last one is "ra\u0130se", with the capital dotted I
FailPolicies == {Text(<<"r", "a", "i", "s", "e">>), Text(<<"i", "g", "n", "o", "r", "e">>),
                 Text(<<"I", "g", "n", "o", "r", "e">>), Text(<<"s", "k", "i", "p">>),
                 Text(<<"r", "a">>) \o <<304>> \o Text(<<"s", "e">>)}

\* the capital of an ASCII small letter
UpperChar(c) == IF 97 <= c /\ c <= 122 THEN c - 32 ELSE c

\* the label with its first k characters in upper case
Capitalised(label, k) ==
    [i \in 1..Len(label) |-> IF i <= k THEN UpperChar(label[i]) ELSE label[i]]

KnownLabels ==
    DailyLabels \cup WeeklyLabels \cup MonthlyLabels \cup SemiLabels
        \cup QuarterlyLabels \cup YearlyLabels

UnknownLabels ==
    {<<>>, Text(<<"x">>), Text(<<"d", "d">>), Text(<<"d", "a", "i", "l", "y", " ">>), Text(<<"n", "o", "n", "e">>),
     Text(<<"a", "n", "n", "u", "a", "l", "l", "y">>), Text(<<"b", "i", "w", "e", "e", "k", "l", "y">>),
     Text(<<"s", "e", "m", "i">>), Text(<<"2", "5", "2">>), Text(<<"h", "o", "u", "r", "l", "y">>)}

\* labels with characters outside ASCII: the Kelvin sign (8490) for "k" or
\* "K", the capital dotted I (304) for "i", a capital E with acute (201), a
\* long s (383) for "s", and the capital sigma (931) alone, ending a word and
\* inside one
NonAsciiLabels ==
    {Text(<<"w", "e", "e">>) \o <<8490>>,
     Text(<<"W", "E", "E">>) \o <<8490>> \o Text(<<"L", "Y">>),
     Text(<<"W", "E", "E">>) \o <<8490>> \o Text(<<"l", "y">>),
     Text(<<"w", "e", "e">>) \o <<8490>> \o Text(<<"s">>),
     Text(<<"d", "a">>) \o <<304>> \o Text(<<"l", "y">>),
     <<304>>, <<201>>, <<383>>, <<931>>,
     Text(<<"y">>) \o <<931>>,
     Text(<<"y">>) \o <<931>> \o Text(<<"y">>)}

FreqArgs ==
    {None} \cup UnknownLabels \cup NonAsciiLabels
        \cup {Capitalised(l, k) : l \in KnownLabels, k \in 0..Len(semi_annually)}

\* returns data of L rows and n columns, `step` days apart, with a missing
\* value in the last column of row `hole` (none when hole = 0)
Returns(ndim, n, L, step, hole) ==
    [ndim |-> ndim,
     columns |-> [c \in 1..n |-> StrName("c" \o ToString(c))],
     index |-> [i \in 1..L |-> (i - 1) * step],
     rows |-> [i \in 1..L |-> [c \in 1..n |->
                 IF i = hole /\ c = n THEN NaN ELSE <<5 * i + c>>]]]

ReturnsData ==
    {Returns(1, 1, L, step, hole) : L \in 0..MaxRows, step \in {7, 30}, hole \in 0..MaxRows}
    \cup {Returns(2, n, L, step, hole) :
            n \in 1..MaxCols, L \in 0..MaxRows, step \in {7, 30}, hole \in 0..MaxRows}

\* series whose frequency is inferred as daily, monthly or not at all
FrequencyData ==
    {Flat(Index(t, b, g1, g2)) :
        t \in {0, MaxOdd + MaxOdd, MaxGaps}, b \in {0, MaxOdd}, g1 \in {1, 30}, g2 \in {1, 30}}

AssetLabels == {IntName(0), IntName(2), StrName("X"), StrName("AST_0")}

BenchmarkLabels == {IntName(0), IntName(2), StrName("X"), StrName("BMK_0")}

SeriesNames == {NoName, IntName(0), IntName(2), StrName("X")}

\* two rows of returns, a month apart
Named(ndim, columns) ==
    [ndim |-> ndim, columns |-> columns, index |-> <<0, 30>>,
     rows |-> [i \in 1..2 |-> [c \in DOMAIN columns |-> <<5 * i + c>>]]]

\* the tables with up to MaxCols distinct labels of S
Tables(S) ==
    {Named(2, cols) : cols \in
        {c \in UNION {[1..n -> S] : n \in 1..MaxCols} :
            \A i, j \in DOMAIN c : c[i] = c[j] => i = j}}

AssetData == {Named(1, <<nm>>) : nm \in SeriesNames} \cup Tables(AssetLabels)

BenchmarkData == {Named(1, <<nm>>) : nm \in SeriesNames} \cup Tables(BenchmarkLabels)

PrefixChoices == {<<"AST", "BMK">>, <<"P", "Q">>}

(***************************************************************************)
(* The calls                                                               *)
(***************************************************************************)
Init ==
    /\ pc = "idle"
    /\ call = NoCall
    /\ ret = NoRet
    /\ loc = NoLoc

Finish(c, r) ==
    /\ pc' = "done"
    /\ call' = c
    /\ ret' = r
    /\ loc' = NoLoc

Call_freq_to_scale ==
    /\ pc = "idle"
    /\ \E freq \in FreqArgs :
           Finish([fn |-> "freq_to_scale", freq |-> freq], freq_to_scale(freq))

Call_infer_frequency ==
    /\ pc = "idle"
    /\ \E index \in InferIndexes, fail_policy \in FailPolicies :
           Finish([fn |-> "infer_frequency", data |-> Flat(index), fail_policy |-> fail_policy],
                  infer_frequency(Flat(index), fail_policy))

Call_annualized_returns ==
    /\ pc = "idle"
    /\ \E r \in ReturnsData, freq \in {None, monthly, Text(<<"D">>), Text(<<"x">>)}, geometric \in BOOLEAN :
           Finish([fn |-> "annualized_returns", r |-> r, freq |-> freq, geometric |-> geometric],
                  annualized_returns(r, freq, geometric))

Call_determine_frequency ==
    /\ pc = "idle"
    /\ \E ra \in FrequencyData, rb \in FrequencyData, freq \in {None, yearly, Text(<<"x">>)} :
           Finish([fn |-> "_determine_frequency", ra |-> ra, rb |-> rb, freq |-> freq],
                  _determine_frequency(ra, rb, freq))

Call_active_premium ==
    /\ pc = "idle"
    /\ \E ra \in AssetData, rb \in BenchmarkData, prefixes \in PrefixChoices,
          a \in {<<None, TRUE>>, <<Text(<<"m">>), FALSE>>} :
           Finish([fn |-> "active_premium", ra |-> ra, rb |-> rb, freq |-> a[1],
                   geometric |-> a[2], prefixes |-> prefixes],
                  active_premium(ra, rb, a[1], a[2], prefixes))

Call_relative_returns ==
    /\ pc = "idle"
    /\ \E ra \in AssetData, rb \in BenchmarkData, prefixes \in PrefixChoices :
           Finish([fn |-> "relative_returns", ra |-> ra, rb |-> rb, prefixes |-> prefixes],
                  relative_returns(ra, rb, prefixes))

\* lines 126-127: the call, and the missing observations dropped
ER_dropna ==
    /\ pc = "idle"
    /\ \E ra \in ReturnsData, rb \in ReturnsData, freq \in {None, monthly}, geometric \in BOOLEAN :
        /\ pc' = "er_truncate"
        /\ call' = [fn |-> "excess_returns", ra |-> ra, rb |-> rb,
                    freq |-> freq, geometric |-> geometric]
        /\ loc' = [fn |-> "excess_returns", ra |-> dropna(ra), rb |-> dropna(rb),
                   freq |-> freq, executed |-> <<"dropna">>]
        /\ ret' = NoRet

\* lines 129-130
ER_truncate ==
    /\ pc = "er_truncate"
    /\ LET n == Min(len(loc.ra), len(loc.rb))
       IN loc' = [loc EXCEPT !.ra = iloc(loc.ra, n), !.rb = iloc(loc.rb, n),
                             !.executed = Append(@, "truncate")]
    /\ pc' = "er_shape"
    /\ UNCHANGED <<call, ret>>

\* lines 132-133
ER_shape ==
    /\ pc = "er_shape"
    /\ loc' = [loc EXCEPT !.executed = Append(@, "shape")]
    /\ IF ShapeMismatch(loc.ra, loc.rb)
       THEN pc' = "done" /\ ret' = ShapesDoNotMatch
       ELSE pc' = "er_frequency" /\ ret' = ret
    /\ UNCHANGED call

\* line 135
ER_frequency ==
    /\ pc = "er_frequency"
    /\ LET freq == _determine_frequency(loc.ra, loc.rb, loc.freq)
       IN IF freq.status = "raise"
          THEN /\ pc' = "done"
               /\ ret' = freq
               /\ loc' = [loc EXCEPT !.executed = Append(@, "frequency")]
          ELSE /\ pc' = "er_annualize"
               /\ ret' = ret
               /\ loc' = [loc EXCEPT !.freq = freq.value,
                                     !.executed = Append(@, "frequency")]
    /\ UNCHANGED call

\* lines 137-138
ER_annualize ==
    /\ pc = "er_annualize"
    /\ LET a == annualized_returns(loc.ra, loc.freq, TRUE)
           b == annualized_returns(loc.rb, loc.freq, TRUE)
       IN IF a.status = "raise" \/ b.status = "raise"
          THEN /\ pc' = "done"
               /\ ret' = IF a.status = "raise" THEN a ELSE b
               /\ loc' = [loc EXCEPT !.executed = Append(@, "annualize")]
          ELSE /\ pc' = "er_combine"
               /\ ret' = ret
               /\ loc' = [loc EXCEPT !.ra = a.value, !.rb = b.value,
                                     !.executed = Append(@, "annualize")]
    /\ UNCHANGED call

\* line 140
ER_combine ==
    /\ pc = "er_combine"
    /\ pc' = "done"
    /\ ret' = Return(Combined(loc.ra, loc.rb, call.geometric))
    /\ loc' = [loc EXCEPT !.executed = Append(@, "combine")]
    /\ UNCHANGED call

Next ==
    \/ Call_freq_to_scale
    \/ Call_infer_frequency
    \/ Call_annualized_returns
    \/ Call_determine_frequency
    \/ Call_active_premium
    \/ Call_relative_returns
    \/ ER_dropna
    \/ ER_truncate
    \/ ER_shape
    \/ ER_frequency
    \/ ER_annualize
    \/ ER_combine

Spec == Init /\ [][Next]_vars

(***************************************************************************)
(* Properties of infer_frequency                                           *)
(***************************************************************************)
Done(fn) == pc = "done" /\ call.fn = fn

Raises(exc) == ret.status = "raise" /\ ret.exc = exc

\* the day counts of each periodicity, in the order daily, weekly, monthly,
\* quarterly, semi-annually, yearly
Membership == <<1..5, {7}, 28..31, 89..92, 180..184, 360..366>>

\* the number of consecutive gaps of the index whose day count is in S
Votes(index, S) ==
    Cardinality({i \in 1..(Len(index) - 1) : (index[i + 1] - index[i]) \in S})

PolicyIs(name) == lower(call.fail_policy) = name

ValidPolicy == PolicyIs(Text(<<"r", "a", "i", "s", "e">>)) \/ PolicyIs(Text(<<"i", "g", "n", "o", "r", "e">>))

\* the periodicities whose vote total is strictly greater than 0.85 * n
Clearing(index) ==
    {k \in 1..6 : 100 * Votes(index, Membership[k]) > 85 * Len(index)}

\* C1: with n >= 30 observations infer_frequency returns the first
\* periodicity, in the fixed order, whose vote total is strictly greater than
\* 0.85 * n; when none is, it raises under 'raise' and returns None under
\* 'ignore'.
C1_Supermajority ==
    (Done("infer_frequency") /\ ValidPolicy /\ Len(call.data.index) >= 30) =>
        LET over == Clearing(call.data.index) IN
        IF over # {}
        THEN ret = Return(Periodicities[CHOOSE k \in over : \A j \in over : k <= j])
        ELSE /\ PolicyIs(Text(<<"r", "a", "i", "s", "e">>)) => Raises("TypeError")
             /\ PolicyIs(Text(<<"i", "g", "n", "o", "r", "e">>)) => ret = Return(None)

\* 40 observations of which exactly 34 weekly gaps (0.85 * 40): not inferable
C1_Witness ==
    /\ Done("infer_frequency")
    /\ Len(call.data.index) = 40
    /\ Votes(call.data.index, {7}) = 34
    /\ PolicyIs(Text(<<"r", "a", "i", "s", "e">>))
    /\ Raises("TypeError")

\* C2: with n < 30 observations infer_frequency returns the periodicity with
\* the highest vote total, the first of them in the fixed order on a tie,
\* whatever the 85% threshold says.
C2_SmallSample ==
    (Done("infer_frequency") /\ ValidPolicy /\ Len(call.data.index) < 30) =>
        \E k \in 1..6 :
            /\ ret = Return(Periodicities[k])
            /\ \A j \in 1..6 : Votes(call.data.index, Membership[j])
                                    <= Votes(call.data.index, Membership[k])
            /\ \A j \in 1..(k - 1) : Votes(call.data.index, Membership[j])
                                         < Votes(call.data.index, Membership[k])

\* weekly and monthly tie on the highest total, below the threshold
C2_Witness ==
    /\ Done("infer_frequency")
    /\ Len(call.data.index) = 13
    /\ Votes(call.data.index, {7}) = 6
    /\ Votes(call.data.index, 28..31) = 6
    /\ Clearing(call.data.index) = {}
    /\ ret = Return(weekly)

\* C3: with fewer than 2 timestamps infer_frequency ends as not inferable
\* (an error under 'raise', None under 'ignore') and returns no periodicity.
C3_NoGapsNotInferable ==
    (Done("infer_frequency") /\ ValidPolicy /\ Len(call.data.index) < 2) =>
        /\ PolicyIs(Text(<<"r", "a", "i", "s", "e">>)) => Raises("TypeError")
        /\ PolicyIs(Text(<<"i", "g", "n", "o", "r", "e">>)) => ret = Return(None)

\* C10: with n >= 30 observations at most one periodicity has a vote total
\* over 0.85 * n, so the value returned is that of any scan order.
C10_AtMostOneClears ==
    (Done("infer_frequency") /\ ValidPolicy /\ Len(call.data.index) >= 30) =>
        LET n == Len(call.data.index)
            over == {k \in 1..6 : OverThreshold(delta(call.data.index, k), n)}
        IN /\ Cardinality(over) <= 1
           /\ \A k \in over : ret = Return(Periodicities[k])

\* a yearly index, found after the five periodicities scanned before it
C10_Witness ==
    /\ Done("infer_frequency")
    /\ Len(call.data.index) >= 30
    /\ {k \in 1..6 : OverThreshold(delta(call.data.index, k), Len(call.data.index))} = {6}
    /\ \E i \in 1..(Len(call.data.index) - 1) :
           (call.data.index[i + 1] - call.data.index[i]) \notin 360..366
    /\ ret = Return(yearly)

(***************************************************************************)
(* Properties of freq_to_scale                                             *)
(***************************************************************************)
\* the documented scale of each label and synonym
Documented ==
    {<<daily, 252>>, <<Text(<<"d">>), 252>>, <<Text(<<"d", "a", "y">>), 252>>,
     <<weekly, 52>>, <<Text(<<"w">>), 52>>, <<Text(<<"w", "e", "e", "k">>), 52>>,
     <<monthly, 12>>, <<Text(<<"m">>), 12>>, <<Text(<<"m", "o", "n", "t", "h">>), 12>>,
     <<quarterly, 4>>, <<Text(<<"q">>), 4>>, <<Text(<<"q", "u", "a", "r", "t", "e", "r">>), 4>>,
     <<semi_annually, 6>>, <<Text(<<"s">>), 6>>,
     <<Text(<<"s", "e", "m", "i", "-", "a", "n", "n", "u", "a", "l">>), 6>>,
     <<yearly, 1>>, <<Text(<<"y">>), 1>>, <<Text(<<"y", "e", "a", "r">>), 1>>,
     <<Text(<<"a", "n", "n", "u", "a", "l">>), 1>>}

\* the characters that are the small ASCII letter c in another case: its
\* capital and, for "k", the Kelvin sign
CaseVariants(c) ==
    {c} \cup (IF 97 <= c /\ c <= 122 THEN {c - 32} ELSE {})
        \cup (IF c = 107 THEN {8490} ELSE {})

\* the text a is the label b up to the case of its letters
SameIgnoringCase(a, b) ==
    /\ Len(a) = Len(b)
    /\ \A i \in 1..Len(a) : a[i] \in CaseVariants(b[i])

\* C9: freq_to_scale maps every label and synonym, in any case, to its
\* documented scale, and raises the unknown-frequency error for every other
\* argument, an absent frequency included.
C9_ScaleTable ==
    Done("freq_to_scale") =>
        LET hits == {d \in Documented : call.freq # None /\ SameIgnoringCase(call.freq, d[1])}
        IN IF hits # {} THEN \A d \in hits : ret = Return(d[2])
           ELSE Raises("ValueError") /\ ret.args[1] = "Unknown frequency"

C9_Witness ==
    /\ Done("freq_to_scale")
    /\ call.freq = Text(<<"W", "E", "E">>) \o <<8490>> \o Text(<<"l", "y">>)
    /\ ret = Return(52)

(***************************************************************************)
(* Properties of _determine_frequency                                      *)
(***************************************************************************)
\* C4: a requested frequency is returned as it is, whatever the two series
\* imply; with none requested the call fails when both inferred frequencies
\* are absent, returns the present one when one is absent, returns the common
\* one when they agree and fails with both values when they differ.
C4_Reconcile ==
    Done("_determine_frequency") =>
        LET fa == ppa_frequency(call.ra)
            fb == ppa_frequency(call.rb)
        IN IF call.freq # None THEN ret = Return(call.freq)
           ELSE /\ (fa = None /\ fb = None) => Raises("TimeIndexError")
                /\ (fa = None /\ fb # None) => ret = Return(fb)
                /\ (fa # None /\ fb = None) => ret = Return(fa)
                /\ (fa # None /\ fa = fb) => ret = Return(fa)
                /\ (fa # None /\ fb # None /\ fa # fb) =>
                       Raises("TimeIndexMismatchError") /\ ret.args = <<fa, fb>>

\* a requested frequency wins over two series that imply different ones
C4_Witness ==
    /\ Done("_determine_frequency")
    /\ call.freq = yearly
    /\ ppa_frequency(call.ra) = daily
    /\ ppa_frequency(call.rb) = monthly
    /\ ret = Return(yearly)

(***************************************************************************)
(* Properties of annualized_returns                                        *)
(***************************************************************************)
\* C5: annualized_returns raises whenever no observation is left after the
\* missing ones are dropped, in both modes, with or without a frequency.
C5_EmptyFails ==
    (Done("annualized_returns") /\ len(dropna(call.r)) = 0) => ret.status = "raise"

(***************************************************************************)
(* Properties of active_premium and relative_returns                       *)
(***************************************************************************)
Range(f) == {f[i] : i \in DOMAIN f}

Distinct(f) == \A i, j \in DOMAIN f : f[i] = f[j] => i = j

\* '{prefix}_{k}'
Synthesized(prefix, k) == StrName(prefix \o "_" \o ToString(k))

\* the names the columns of an input are given when every integer-named or
\* unnamed column is named after the prefix and its position
PositionalNames(data, prefix) ==
    [i \in DOMAIN data.columns |->
        IF data.columns[i].kind \in {"int", "none"} THEN Synthesized(prefix, i - 1)
        ELSE data.columns[i]]

\* the names the columns of an input are given when an integer-named column
\* is named after the prefix and its integer name, and a bare series without
\* a name, or named 0, after the prefix alone
GivenNames(data, prefix) ==
    [i \in DOMAIN data.columns |->
        LET name == data.columns[i] IN
        IF data.ndim = 1 /\ (name.kind = "none" \/ name = IntName(0))
        THEN StrName(prefix)
        ELSE IF name.kind = "int" THEN Synthesized(prefix, name.i)
        ELSE name]

\* the names of the pairs, in the order of the two loops
PairNames(an, bn) ==
    [k \in 1..(Len(an) * Len(bn)) |->
        an[((k - 1) \div Len(bn)) + 1].s \o "/" \o bn[((k - 1) % Len(bn)) + 1].s]

\* the result of a comparison is labelled with the names an and bn
LabelledWith(an, bn) ==
    /\ (Done("active_premium") /\ ret.status = "return") =>
           /\ Range(ret.value.columns) = Range(an)
           /\ Range(ret.value.index) = Range(bn)
    /\ (Done("relative_returns") /\ Distinct(PairNames(an, bn))) =>
           ret.value.columns = PairNames(an, bn)

\* C6 as stated: every integer-named or unnamed column, a bare unnamed
\* series and a column named 0 included, is named '{prefix}_{position}'.
C6_PositionalNames ==
    (Done("active_premium") \/ Done("relative_returns")) =>
        LabelledWith(PositionalNames(call.ra, call.prefixes[1]),
                     PositionalNames(call.rb, call.prefixes[2]))

\* C6, amended: an integer-named column k of a table is named '{prefix}_{k}'
\* after its integer name; a bare series without a name, or named 0, is
\* named after the prefix alone; every other name is kept.
C6_GivenNames ==
    (Done("active_premium") \/ Done("relative_returns")) =>
        LabelledWith(GivenNames(call.ra, call.prefixes[1]),
                     GivenNames(call.rb, call.prefixes[2]))

\* an unnamed asset series against a table whose only column is named 2
C6_Witness ==
    /\ Done("relative_returns")
    /\ call.ra.ndim = 1 /\ call.ra.columns = <<NoName>>
    /\ call.rb.ndim = 2 /\ call.rb.columns = <<IntName(2)>>
    /\ call.prefixes = <<"AST", "BMK">>
    /\ ret.value.columns = <<"AST/BMK_2">>

\* the number of (asset column, benchmark column) pairs of the call
PairCount == Len(call.ra.columns) * Len(call.rb.columns)

\* C7 as stated: active_premium and relative_returns return a Series for
\* one pair and a Table for more than one.
C7_SinglePairSeries ==
    ((Done("active_premium") \/ Done("relative_returns")) /\ ret.status = "return") =>
        /\ PairCount = 1 => ret.value.type = "Series"
        /\ PairCount > 1 => ret.value.type = "DataFrame"

\* C7, amended: relative_returns returns a Series for one pair and a Table
\* for more than one; active_premium returns a Table for any number of
\* pairs, a 1x1 Table for one pair.
C7_OnlyRelativeCollapses ==
    /\ (Done("relative_returns") /\ ret.status = "return") =>
           /\ PairCount = 1 => ret.value.type = "Series" /\ Len(ret.value.columns) = 1
           /\ PairCount > 1 => ret.value.type = "DataFrame"
    /\ (Done("active_premium") /\ ret.status = "return") =>
           /\ ret.value.type = "DataFrame"
           /\ PairCount = 1 => Len(ret.value.columns) = 1 /\ Len(ret.value.index) = 1

\* one asset table column against one benchmark series
C7_Witness ==
    /\ Done("relative_returns")
    /\ call.ra.ndim = 2 /\ call.rb.ndim = 1
    /\ PairCount = 1
    /\ ret.value.type = "Series"

(***************************************************************************)
(* Properties of excess_returns                                            *)
(***************************************************************************)
Executed(step) == \E i \in DOMAIN loc.executed : loc.executed[i] = step

\* the first n elements of s
First(s, n) == [i \in 1..n |-> s[i]]

\* C8: excess_returns keeps the earliest min(len_a, len_b) rows that hold no
\* missing value, so no difference in length fails the shape check; it raises
\* the shape-mismatch error exactly when both arguments are tables with
\* different numbers of columns, and before any frequency is reconciled or
\* any return annualized.
C8_AlignThenShapeCheck ==
    (call.fn = "excess_returns") =>
        LET a == dropna(call.ra)
            b == dropna(call.rb)
            n == IF len(a) <= len(b) THEN len(a) ELSE len(b)
            differ == /\ call.ra.ndim = 2
                      /\ call.rb.ndim = 2
                      /\ Len(call.ra.columns) # Len(call.rb.columns)
        IN /\ (Executed("truncate") /\ ~Executed("annualize")) =>
                /\ loc.ra.index = First(a.index, n) /\ loc.ra.rows = First(a.rows, n)
                /\ loc.rb.index = First(b.index, n) /\ loc.rb.rows = First(b.rows, n)
           /\ Executed("shape") => (ret = ShapesDoNotMatch <=> differ)
           /\ ret = ShapesDoNotMatch =>
                /\ pc = "done"
                /\ loc.executed = <<"dropna", "truncate", "shape">>
           /\ (Executed("frequency") \/ Executed("annualize")) =>
                /\ ~differ
                /\ SubSeq(loc.executed, 1, 3) = <<"dropna", "truncate", "shape">>

\* two tables with different numbers of columns and, once the benchmark's
\* missing observation is dropped, different lengths
C8_Witness ==
    /\ Done("excess_returns")
    /\ ret = ShapesDoNotMatch
    /\ len(call.rb) > len(dropna(call.rb))
    /\ len(dropna(call.ra)) > len(dropna(call.rb))
    /\ len(dropna(call.rb)) > 0

====
